---- MODULE Spec2Model ----
(***************************************************************************)
(* Model of the SSE watch-multiplexing relay:                              *)
(*   backend/apps/common/sse/manager.py   SSEConnectionManager             *)
(*   backend/apps/common/sse/watchers.py  InferenceServiceWatcher,         *)
(*                                        EventWatcher                     *)
(*   backend/apps/common/sse/routes.py    the event_stream generators      *)
(* Threads are modelled at the granularity of the statements that read or  *)
(* write shared state: a session generator (one per connection), and one   *)
(* watcher thread per constructed watcher.  The critical sections of       *)
(* register_*_watch and unregister_client never block, so each is one      *)
(* step; _broadcast_event holds the key's lock across one step per         *)
(* queue.put, because put blocks on a full queue.                          *)
(***************************************************************************)
EXTENDS Integers, Sequences, FiniteSets, TLC

\* ---------------------------------------------------------------- bounds
\* Number of connections (event_stream generators) in a run.
NumSessions == 2
\* Number of watcher objects the manager may construct in a run.
NumWatchers == 2
\* Number of events the upstream streams yield in a run.
MaxEvents == 3
\* Capacity of a client queue (queue.Queue(maxsize=100) scaled down).
QueueMaxSize == 2
\* Number of consecutive upstream failures of one watcher (a request or an
\* open stream raising) without an established stream in between.
MaxFailures == 2
\* Number of queue.put calls that raise in a run.
MaxPutFaults == 1
\* Number of events of one stream whose callback raises.
MaxCallbackFaults == 1
\* Timed loop: clock ticks per time unit (per second of time.time()).
TicksPerUnit == 2
\* Timed loop: ticks by which a get that times out may overrun its timeout.
MaxLag == 1
\* Timed loop: last tick of a run.
MaxClock == 130
\* Timed loop: ticks the consumer of the generator may take to resume it
\* after a yield.
MaxResume == 4

\* Length of the ALLOWED_NAMESPACES value, in characters.
MaxEnvLen == 4

\* heartbeat_interval = 30  and  client_queue.get(timeout=1), in time units.
heartbeat_interval == 30
get_timeout == 1

Sessions == 1..NumSessions
Watchers == 1..NumWatchers

\* watch_key = prefix + rest, kept as the pair <<prefix, rest>>.
NsKey == <<"ns:", "a">>
IsvcKey == <<"isvc:", "a/m">>
EventsKey == <<"events:", "a/m">>
Keys == {NsKey, IsvcKey, EventsKey}

\* The n-th event the upstream streams yield in a run: the object is first
\* ADDED and then MODIFIED; id stands for the object's content.
UpstreamEvent(n) == [id |-> n, type |-> IF n = 1 THEN "ADDED" ELSE "MODIFIED"]

\* dict.get / "not in": 0 stands for an absent entry.
NoWatcher == 0
\* threading.Lock holder: <<"free", 0>>, <<"watcher", w>>.
FreeLock == <<"free", 0>>
NoEvent == [id |-> 0, type |-> "NONE"]

VARIABLES
    namespace_watchers,  \* _namespace_watchers: key -> watcher
    single_watchers,     \* _single_watchers
    event_watchers,      \* _event_watchers
    client_queues,       \* _client_queues: key -> list of client queues
    locks,               \* _locks: key -> holder
    queue,               \* the queue.Queue of each session: its items
    spc,                 \* position of each event_stream generator
    skey,                \* watch_key of each session
    attached,            \* session has returned from register_*_watch
    got,                 \* ids of the events each session took from its queue
    wpc,                 \* position of each watcher thread
    wkey,                \* watch_key captured by the watcher's callback
    stop_requested,      \* watcher._stop_requested
    wev,                 \* event the watcher thread is handling
    widx,                \* position of _broadcast_event's for loop
    wdead,               \* dead_queues of the running _broadcast_event
    wbefore,             \* _client_queues[watch_key] when the broadcast took the lock
    nextWatcher,         \* watcher objects constructed so far
    nextEvent,           \* events yielded by upstream streams so far
    delays,              \* sleeps since the watcher's last established stream
    since,               \* what has happened since the watcher's last stream ended:
                         \* "expiry"/"error" (it ended so, no sleep yet),
                         \* "expiry_slept"/"error_slept" (and it has slept since);
                         \* "none" while a stream is open and before the first one
    putFaults,           \* queue.put calls that have raised so far
    bcasts,              \* completed broadcasts: event id -> record
    wstream,             \* the watcher's open stream: ids of the events it has
                         \* yielded and of those whose callback raised
    detaches,            \* unregister_client calls each session has made
    sent,                \* what each generator has yielded: the kind of its first
                         \* message, the number of error events, and the number
                         \* of messages after the first error event
    failed,              \* an exception was raised inside the generator's try
    snapshot_at,         \* events the upstream had yielded when the session
                         \* fetched its snapshot
    clock,               \* timed loop: time.time(), in ticks
    last_heartbeat,      \* timed loop: last_heartbeat
    quiet_from,          \* timed loop: time the generator resumed after its
                         \* last event emission (or the loop's start)
    beats,               \* timed loop: times the heartbeats since quiet_from
                         \* were yielded
    resumed,             \* timed loop: times the generator resumed after them
    timed_pc,            \* timed loop: "get", or the yield the generator is
                         \* suspended at ("yield_event", "yield_hb")
    timed_events,        \* timed loop: events taken from the queue so far
    ns_response          \* last response of GET /api/config/namespaces

mgr == <<namespace_watchers, single_watchers, event_watchers, client_queues>>
sess == <<spc, skey, attached, got>>
wthr == <<wpc, wkey, stop_requested, wev, widx, wdead, wbefore, nextWatcher>>
whist == <<delays, since>>
obs == <<detaches, sent, failed, snapshot_at>>
timed == <<clock, last_heartbeat, quiet_from, beats, resumed, timed_pc, timed_events>>
aux == <<timed, ns_response>>
vars == <<mgr, locks, queue, sess, wthr, nextEvent, whist, putFaults, bcasts,
          wstream, obs, aux>>

\* A stream that has yielded no event yet.
NewStream == [yielded |-> {}, dropped |-> {}]
\* Nothing yielded yet, and no request answered yet.
NothingSent == [first |-> "none", errors |-> 0, after_error |-> 0]
NoResponse == [env |-> <<>>, cluster |-> <<>>, status |-> "none", namespaces |-> <<>>]

Init ==
    /\ namespace_watchers = [k \in Keys |-> NoWatcher]
    /\ single_watchers = [k \in Keys |-> NoWatcher]
    /\ event_watchers = [k \in Keys |-> NoWatcher]
    /\ client_queues = [k \in Keys |-> <<>>]
    /\ locks = [k \in Keys |-> FreeLock]
    /\ queue = [s \in Sessions |-> <<>>]
    /\ spc = [s \in Sessions |-> "idle"]
    /\ skey = [s \in Sessions |-> NsKey]
    /\ attached = [s \in Sessions |-> FALSE]
    /\ got = [s \in Sessions |-> <<>>]
    /\ wpc = [w \in Watchers |-> "new"]
    /\ wkey = [w \in Watchers |-> NsKey]
    /\ stop_requested = [w \in Watchers |-> FALSE]
    /\ wev = [w \in Watchers |-> NoEvent]
    /\ widx = [w \in Watchers |-> 0]
    /\ wdead = [w \in Watchers |-> <<>>]
    /\ wbefore = [w \in Watchers |-> <<>>]
    /\ nextWatcher = 0
    /\ nextEvent = 0
    /\ delays = [w \in Watchers |-> <<>>]
    /\ since = [w \in Watchers |-> "none"]
    /\ putFaults = 0
    /\ bcasts = {}
    /\ wstream = [w \in Watchers |-> NewStream]
    /\ detaches = [s \in Sessions |-> 0]
    /\ sent = [s \in Sessions |-> NothingSent]
    /\ failed = [s \in Sessions |-> FALSE]
    /\ snapshot_at = [s \in Sessions |-> 0]
    /\ clock = 0
    /\ last_heartbeat = 0
    /\ quiet_from = 0
    /\ beats = <<>>
    /\ resumed = <<>>
    /\ timed_pc = "get"
    /\ timed_events = 0
    /\ ns_response = NoResponse

\* ------------------------------------------------------------- helpers
Range(f) == {f[i] : i \in DOMAIN f}

\* Mutant of ListRemove: nothing is removed.
ListRemoveNothing(list, x) == list

\* list.remove(x): drops the first occurrence of x.
RECURSIVE ListRemove(_, _)
ListRemove(list, x) ==
    IF list = <<>> THEN <<>>
    ELSE IF Head(list) = x THEN Tail(list)
    ELSE <<Head(list)>> \o ListRemove(Tail(list), x)

\* Mutant of RemoveDead: a failed delivery empties the whole list.
RemoveDeadClearsAll(list, dead) == IF dead = <<>> THEN list ELSE <<>>

\* for queue in dead_queues: self._client_queues[watch_key].remove(queue)
RECURSIVE RemoveDead(_, _)
RemoveDead(list, dead) ==
    IF dead = <<>> THEN list
    ELSE RemoveDead(ListRemove(list, Head(dead)), Tail(dead))

\* The dict that _stop_watcher and register_*_watch pick for a key.
Registry(k) ==
    IF k[1] = "ns:" THEN namespace_watchers[k]
    ELSE IF k[1] = "isvc:" THEN single_watchers[k]
    ELSE IF k[1] = "events:" THEN event_watchers[k]
    ELSE NoWatcher

\* Mutant of LockAvailable: the critical sections do not exclude each other.
LockAlwaysAvailable(k) == TRUE

\* Mutant of LockAvailable: one lock for all keys.
LockSharedByAllKeys(k) == \A k2 \in DOMAIN locks : locks[k2] = FreeLock

\* with self._locks[watch_key]: the lock can be taken.
LockAvailable(k) == locks[k] = FreeLock

\* queue.put(item) on a queue.Queue(maxsize): returns at once iff not full.
QueueFull(q) == Len(q) >= QueueMaxSize
\* Mutant of QueuePut: the item is put at the head (a LIFO queue).
QueuePutAtHead(q, item) == <<item>> \o q

QueuePut(q, item) == Append(q, item)

\* ------------------------------------------------------------- manager
\* Mutant of WatcherMissing: every attach constructs a watcher.
WatcherAlwaysMissing(registry, k) == TRUE

\* if watch_key not in self._..._watchers
WatcherMissing(registry, k) == registry[k] = NoWatcher

\* watcher = ...Watcher(); threading.Thread(target=watcher.watch_...).start()
\* The new thread begins at the head of its while loop.
LaunchWatcher(k) ==
    /\ nextWatcher < NumWatchers
    /\ nextWatcher' = nextWatcher + 1
    /\ wpc' = [wpc EXCEPT ![nextWatcher + 1] = "loop"]
    /\ wkey' = [wkey EXCEPT ![nextWatcher + 1] = k]

register_namespace_watch(s) ==
    LET k == skey[s] IN
    /\ spc[s] = "yield_initial"
    /\ k[1] = "ns:"
    /\ LockAvailable(k)
    /\ client_queues' = [client_queues EXCEPT ![k] = Append(@, s)]
    /\ IF WatcherMissing(namespace_watchers, k)
       THEN /\ LaunchWatcher(k)
            /\ namespace_watchers' = [namespace_watchers EXCEPT ![k] = nextWatcher + 1]
       ELSE UNCHANGED <<namespace_watchers, nextWatcher, wpc, wkey>>
    /\ spc' = [spc EXCEPT ![s] = "loop"]
    /\ attached' = [attached EXCEPT ![s] = TRUE]
    /\ UNCHANGED <<single_watchers, event_watchers, locks, queue, skey, got,
                   stop_requested, wev, widx, wdead, wbefore, nextEvent, whist, putFaults, bcasts,
                   wstream, obs, aux>>

register_single_watch(s) ==
    LET k == skey[s] IN
    /\ spc[s] = "yield_initial"
    /\ k[1] = "isvc:"
    /\ LockAvailable(k)
    /\ client_queues' = [client_queues EXCEPT ![k] = Append(@, s)]
    /\ IF WatcherMissing(single_watchers, k)
       THEN /\ LaunchWatcher(k)
            /\ single_watchers' = [single_watchers EXCEPT ![k] = nextWatcher + 1]
       ELSE UNCHANGED <<single_watchers, nextWatcher, wpc, wkey>>
    /\ spc' = [spc EXCEPT ![s] = "loop"]
    /\ attached' = [attached EXCEPT ![s] = TRUE]
    /\ UNCHANGED <<namespace_watchers, event_watchers, locks, queue, skey, got,
                   stop_requested, wev, widx, wdead, wbefore, nextEvent, whist, putFaults, bcasts,
                   wstream, obs, aux>>

register_event_watch(s) ==
    LET k == skey[s] IN
    /\ spc[s] = "yield_initial"
    /\ k[1] = "events:"
    /\ LockAvailable(k)
    /\ client_queues' = [client_queues EXCEPT ![k] = Append(@, s)]
    /\ IF WatcherMissing(event_watchers, k)
       THEN /\ LaunchWatcher(k)
            /\ event_watchers' = [event_watchers EXCEPT ![k] = nextWatcher + 1]
       ELSE UNCHANGED <<event_watchers, nextWatcher, wpc, wkey>>
    /\ spc' = [spc EXCEPT ![s] = "loop"]
    /\ attached' = [attached EXCEPT ![s] = TRUE]
    /\ UNCHANGED <<namespace_watchers, single_watchers, locks, queue, skey, got,
                   stop_requested, wev, widx, wdead, wbefore, nextEvent, whist, putFaults, bcasts,
                   wstream, obs, aux>>

\* _stop_watcher(watch_key): pop the key from the dict its prefix selects and
\* stop the watcher found there, if any.
stop_watcher(k) ==
    /\ namespace_watchers' =
           IF k[1] = "ns:" THEN [namespace_watchers EXCEPT ![k] = NoWatcher]
           ELSE namespace_watchers
    /\ single_watchers' =
           IF k[1] = "isvc:" THEN [single_watchers EXCEPT ![k] = NoWatcher]
           ELSE single_watchers
    /\ event_watchers' =
           IF k[1] = "events:" THEN [event_watchers EXCEPT ![k] = NoWatcher]
           ELSE event_watchers
    /\ stop_requested' =
           IF Registry(k) # NoWatcher THEN [stop_requested EXCEPT ![Registry(k)] = TRUE]
           ELSE stop_requested

\* Mutant of LastClientGone: every detach stops the key's watcher.
DetachAlwaysStops(list) == TRUE

\* if len(self._client_queues[watch_key]) == 0
LastClientGone(list) == Len(list) = 0

\* The generator's log after it yields a message of the given kind.
Yielded(log, kind) ==
    [first |-> IF log.first = "none" THEN kind ELSE log.first,
     errors |-> IF kind = "error" THEN log.errors + 1 ELSE log.errors,
     after_error |-> IF log.errors > 0 THEN log.after_error + 1 ELSE log.after_error]

\* unregister_client(watch_key, client_queue), called by the generator's
\* except GeneratorExit / except Exception handlers; the except Exception
\* handler then yields the error event.
unregister_client(s) ==
    LET k == skey[s]
        list == IF s \in Range(client_queues[k])
                THEN ListRemove(client_queues[k], s)
                ELSE client_queues[k]
    IN
    /\ spc[s] \in {"detach", "detach_err"}
    /\ LockAvailable(k)
    /\ client_queues' = [client_queues EXCEPT ![k] = list]
    /\ IF LastClientGone(list)
       THEN stop_watcher(k)
       ELSE UNCHANGED <<namespace_watchers, single_watchers, event_watchers,
                        stop_requested>>
    /\ detaches' = [detaches EXCEPT ![s] = @ + 1]
    /\ spc' = [spc EXCEPT ![s] = IF spc[s] = "detach" THEN "closed" ELSE "yield_error"]
    /\ sent' = IF spc[s] = "detach_err"
               THEN [sent EXCEPT ![s] = Yielded(@, "error")]
               ELSE sent
    /\ UNCHANGED <<locks, queue, skey, attached, got, wpc, wkey, wev, widx, wdead,
                   wbefore, nextWatcher, nextEvent, whist, putFaults, bcasts,
                   wstream, failed, snapshot_at, aux>>

\* ------------------------------------------------------------- sessions
\* Mutant of AfterSnapshot: the generator enters its loop without yielding
\* the snapshot or attaching.
SnapshotSkipsInitial(ok) == IF ok THEN "loop" ELSE "detach_err"

\* initial_data = api.list_custom_rsrc(...): the generator goes on to yield
\* the initial event, or to the except Exception handler if the fetch raises.
AfterSnapshot(ok) == IF ok THEN "yield_initial" ELSE "detach_err"

\* A request arrives on one of the three watch endpoints; the generator
\* fetches the snapshot.  Connections are numbered in the order they start.
SessionStart(s, k, ok) ==
    /\ spc[s] = "idle"
    /\ \A r \in Sessions : r < s => spc[r] # "idle"
    /\ skey' = [skey EXCEPT ![s] = k]
    /\ spc' = [spc EXCEPT ![s] = AfterSnapshot(ok)]
    /\ sent' = IF AfterSnapshot(ok) = "yield_initial"
               THEN [sent EXCEPT ![s] = Yielded(@, "initial")]
               ELSE sent
    /\ failed' = [failed EXCEPT ![s] = ~ok]
    /\ snapshot_at' = [snapshot_at EXCEPT ![s] = nextEvent]
    /\ UNCHANGED <<mgr, locks, queue, attached, got, wthr, nextEvent, whist, putFaults, bcasts,
                   wstream, detaches, aux>>

\* The generator is resumed after a yield inside the loop or after the
\* terminal error event.  (Resumed after the initial event it goes straight
\* to register_*_watch, which is the step register_*_watch below.)
SessionResume(s) ==
    /\ spc[s] \in {"yield_event", "yield_hb", "yield_error"}
    /\ spc' = [spc EXCEPT ![s] = IF spc[s] = "yield_error" THEN "closed" ELSE "loop"]
    /\ UNCHANGED <<mgr, locks, queue, skey, attached, got, wthr, nextEvent, whist, putFaults, bcasts,
                   wstream, obs, aux>>

\* Mutant of AfterGeneratorExit: a disconnect during the error event runs the
\* GeneratorExit handler too.
GeneratorExitAlwaysDetaches(pc) == "detach"

\* GeneratorExit raised at a yield inside the try goes to the except
\* GeneratorExit handler; raised at the yield of the except Exception
\* handler it ends the generator.
AfterGeneratorExit(pc) == IF pc = "yield_error" THEN "closed" ELSE "detach"

\* The client goes away: GeneratorExit is raised at the yield the generator
\* is suspended at.  Inside the except Exception handler nothing catches it.
SessionDisconnect(s) ==
    /\ spc[s] \in {"yield_initial", "yield_event", "yield_hb", "yield_error"}
    /\ spc' = [spc EXCEPT ![s] = AfterGeneratorExit(spc[s])]
    /\ UNCHANGED <<mgr, locks, queue, skey, attached, got, wthr, nextEvent, whist, putFaults, bcasts,
                   wstream, obs, aux>>

\* event_data = client_queue.get(timeout=1); formatting it may raise.
SessionGet(s, ok) ==
    /\ spc[s] = "loop"
    /\ queue[s] # <<>>
    /\ queue' = [queue EXCEPT ![s] = Tail(@)]
    /\ got' = [got EXCEPT ![s] = Append(@, Head(queue[s]).id)]
    /\ spc' = [spc EXCEPT ![s] = IF ok THEN "yield_event" ELSE "detach_err"]
    /\ sent' = IF ok THEN [sent EXCEPT ![s] = Yielded(@, "event")] ELSE sent
    /\ failed' = [failed EXCEPT ![s] = @ \/ ~ok]
    /\ UNCHANGED <<mgr, locks, skey, attached, wthr, nextEvent, whist, putFaults, bcasts,
                   wstream, detaches, snapshot_at, aux>>

\* queue.Empty with the heartbeat due.
SessionHeartbeat(s) ==
    /\ spc[s] = "loop"
    /\ queue[s] = <<>>
    /\ spc' = [spc EXCEPT ![s] = "yield_hb"]
    /\ sent' = [sent EXCEPT ![s] = Yielded(@, "heartbeat")]
    /\ UNCHANGED <<mgr, locks, queue, skey, attached, got, wthr, nextEvent, whist, putFaults, bcasts,
                   wstream, detaches, failed, snapshot_at, aux>>

\* ----------------------------------------------------------- timed loop
\* The while loop of one attached generator with time made explicit: clock
\* is time.time() in ticks; the loop starts at tick 0 with
\* last_heartbeat = time.time().  A yield suspends the generator until its
\* consumer resumes it.

\* Mutant of HeartbeatDue: the heartbeat is due once the interval has elapsed.
HeartbeatDueAtInterval(now, last) == now - last >= heartbeat_interval * TicksPerUnit

\* if time.time() - last_heartbeat > heartbeat_interval
HeartbeatDue(now, last) == now - last > heartbeat_interval * TicksPerUnit

\* client_queue.get(timeout=1) returns an event: get re-tests the queue when
\* its wait has timed out, so the event may have been put at any time up to
\* the timeout (and lag).  The event is yielded and the generator is
\* suspended at the yield.
TimedGetEvent(wait) ==
    /\ timed_pc = "get"
    /\ timed_events < MaxEvents
    /\ clock + wait <= MaxClock
    /\ clock' = clock + wait
    /\ timed_events' = timed_events + 1
    /\ timed_pc' = "yield_event"
    /\ UNCHANGED <<mgr, locks, queue, sess, wthr, nextEvent, whist, putFaults, bcasts,
                   wstream, obs, last_heartbeat, quiet_from, beats, resumed, ns_response>>

\* client_queue.get(timeout=1) raises queue.Empty after the timeout (and
\* lag); if the heartbeat is due it is yielded and the generator is suspended
\* at the yield.
TimedGetEmpty(lag) ==
    LET now == clock + get_timeout * TicksPerUnit + lag IN
    /\ timed_pc = "get"
    /\ now <= MaxClock
    /\ clock' = now
    /\ IF HeartbeatDue(now, last_heartbeat)
       THEN /\ beats' = Append(beats, now)
            /\ timed_pc' = "yield_hb"
       ELSE UNCHANGED <<beats, timed_pc>>
    /\ UNCHANGED <<mgr, locks, queue, sess, wthr, nextEvent, whist, putFaults, bcasts,
                   wstream, obs, last_heartbeat, quiet_from, resumed, timed_events,
                   ns_response>>

\* The consumer resumes the generator after the yield:
\* last_heartbeat = time.time()
TimedResume(delay) ==
    /\ timed_pc \in {"yield_event", "yield_hb"}
    /\ clock + delay <= MaxClock
    /\ clock' = clock + delay
    /\ last_heartbeat' = clock'
    /\ IF timed_pc = "yield_event"
       THEN /\ quiet_from' = clock'
            /\ beats' = <<>>
            /\ resumed' = <<>>
       ELSE /\ resumed' = Append(resumed, clock')
            /\ UNCHANGED <<quiet_from, beats>>
    /\ timed_pc' = "get"
    /\ UNCHANGED <<mgr, locks, queue, sess, wthr, nextEvent, whist, putFaults, bcasts,
                   wstream, obs, timed_events, ns_response>>

\* ------------------------------------------------------- get_namespaces
\* Strings are sequences of characters.  The characters of an
\* ALLOWED_NAMESPACES value, and the namespaces a cluster may have.
Chars == {"a", "g", ",", " "}
EnvStrings == UNION {[1..n -> Chars] : n \in 0..MaxEnvLen}
ClusterNames == << <<"a">>, <<"b">>, <<"a", "a">> >>
Clusters == {SelectSeq(ClusterNames, LAMBDA n : n \in S) : S \in SUBSET Range(ClusterNames)}

\* str.strip()
RECURSIVE StripLeft(_)
StripLeft(str) ==
    IF str # <<>> /\ Head(str) = " " THEN StripLeft(Tail(str)) ELSE str
RECURSIVE StripRight(_)
StripRight(str) ==
    IF str # <<>> /\ str[Len(str)] = " "
    THEN StripRight(SubSeq(str, 1, Len(str) - 1))
    ELSE str
Strip(str) == StripRight(StripLeft(str))

\* str.split(sep)
RECURSIVE Split(_, _)
Split(str, sep) ==
    IF \A i \in DOMAIN str : str[i] # sep THEN <<str>>
    ELSE LET i == CHOOSE i \in DOMAIN str :
                     str[i] = sep /\ \A j \in 1..(i - 1) : str[j] # sep
         IN <<SubSeq(str, 1, i - 1)>> \o Split(SubSeq(str, i + 1, Len(str)), sep)

\* [ns.strip() for ns in allowed_namespaces_env.split(",") if ns.strip()]
allowed_namespaces(allowed_namespaces_env) ==
    LET parts == Split(allowed_namespaces_env, ",")
        stripped == [i \in DOMAIN parts |-> Strip(parts[i])]
    IN SelectSeq(stripped, LAMBDA ns : ns # <<>>)

\* Mutant of valid_allowed_namespaces: the allow-list is not checked against
\* the cluster.
AllowedUnchecked(allowed, all_namespace_names) == allowed

\* [ns for ns in allowed_namespaces if ns in all_namespace_names]
valid_allowed_namespaces(allowed, all_namespace_names) ==
    SelectSeq(allowed, LAMBDA ns : ns \in Range(all_namespace_names))

\* The "namespaces" list of the success response.
VisibleNamespaces(env, all_namespace_names) ==
    LET allowed_namespaces_env == Strip(env)
        allowed == allowed_namespaces(allowed_namespaces_env)
        valid == valid_allowed_namespaces(allowed, all_namespace_names)
    IN IF allowed_namespaces_env = <<>> THEN all_namespace_names
       ELSE IF allowed = <<>> THEN all_namespace_names
       ELSE IF valid = <<>> THEN all_namespace_names
       ELSE valid

\* GET /api/config/namespaces with ALLOWED_NAMESPACES = env (unset: "");
\* api.list_namespaces() returns the cluster's namespaces or raises.  The
\* handler keeps no state: a run makes one request.
get_namespaces(env, cluster, ok) ==
    /\ ns_response = NoResponse
    /\ ns_response' =
           IF ok
           THEN [env |-> env, cluster |-> cluster, status |-> "success",
                 namespaces |-> VisibleNamespaces(env, cluster)]
           ELSE [env |-> env, cluster |-> cluster, status |-> "failed",
                 namespaces |-> <<>>]
    /\ UNCHANGED <<mgr, locks, queue, sess, wthr, nextEvent, whist, putFaults, bcasts,
                   wstream, obs, timed>>

\* ------------------------------------------------------------- watchers
\* watch_namespace, watch_single and watch_events run the same loop; the
\* positions of a watcher thread are
\*   "loop"     about to test  while not self._stop_requested
\*   "connect"  about to open  self.watch.stream(...)
\*   "stream"   waiting for the next event of the open stream
\*   "callback" about to call event_callback -> _broadcast_event
\*   "put"      inside _broadcast_event, holding the key's lock
\*   "backoff"  about to call _reconnect_with_backoff
\*   "exit"     the thread has returned

\* Mutant of reconnect_with_backoff: it returns without sleeping.
reconnect_without_sleep(initial_delay, max_delay, stop) == <<>>

\* _reconnect_with_backoff(initial_delay=1, max_delay=32): the sleeps it makes.
\* The loop body ends in an unconditional break, so it runs at most once.
reconnect_with_backoff(initial_delay, max_delay, stop) ==
    LET delay == initial_delay IN
    IF delay <= max_delay /\ ~stop THEN <<delay>> ELSE <<>>

RECURSIVE SumSeq(_)
SumSeq(q) == IF q = <<>> THEN 0 ELSE Head(q) + SumSeq(Tail(q))

\* while not self._stop_requested:
WatchLoop(w) ==
    /\ wpc[w] = "loop"
    /\ wpc' = [wpc EXCEPT ![w] = IF stop_requested[w] THEN "exit" ELSE "connect"]
    /\ UNCHANGED <<mgr, locks, queue, sess, wkey, stop_requested, wev, widx, wdead,
                   wbefore, nextWatcher, nextEvent, whist, putFaults, bcasts,
                   wstream, obs, aux>>

\* except ApiException / except Exception:  if self._stop_requested: break
AfterException(w) == IF stop_requested[w] THEN "exit" ELSE "backoff"

\* for event in self.watch.stream(...): the request is sent and the stream
\* is established.
WatchConnect(w) ==
    /\ wpc[w] = "connect"
    /\ wpc' = [wpc EXCEPT ![w] = "stream"]
    /\ delays' = [delays EXCEPT ![w] = <<>>]
    /\ since' = [since EXCEPT ![w] = "none"]
    /\ wstream' = [wstream EXCEPT ![w] = NewStream]
    /\ UNCHANGED <<mgr, locks, queue, sess, wkey, stop_requested, wev, widx, wdead,
                   wbefore, nextWatcher, nextEvent, putFaults, bcasts,
                   obs, aux>>

\* The request raises instead; the except clause tests _stop_requested.
WatchConnectError(w) ==
    /\ wpc[w] = "connect"
    /\ Len(delays[w]) < MaxFailures
    /\ wpc' = [wpc EXCEPT ![w] = AfterException(w)]
    /\ UNCHANGED <<mgr, locks, queue, sess, wkey, stop_requested, wev, widx, wdead,
                   wbefore, nextWatcher, nextEvent, delays, since, putFaults, bcasts,
                   wstream, obs, aux>>

\* if self._stop_requested: break   (else the callback is called)
AfterEvent(w) == IF stop_requested[w] THEN "loop" ELSE "callback"

\* The open stream yields an event and the loop body tests _stop_requested.
WatchEvent(w) ==
    /\ wpc[w] = "stream"
    /\ nextEvent < MaxEvents
    /\ nextEvent' = nextEvent + 1
    /\ wev' = [wev EXCEPT ![w] = IF AfterEvent(w) = "callback"
                                  THEN UpstreamEvent(nextEvent + 1)
                                  ELSE NoEvent]
    /\ wpc' = [wpc EXCEPT ![w] = AfterEvent(w)]
    /\ wstream' = [wstream EXCEPT ![w].yielded = @ \cup {nextEvent + 1}]
    /\ UNCHANGED <<mgr, locks, queue, sess, wkey, stop_requested, widx, wdead,
                   wbefore, nextWatcher, whist, putFaults, bcasts,
                   obs, aux>>

\* Mutant of AfterCallbackError: a raising callback ends the stream like an
\* upstream error.
CallbackErrorEndsStream(w) == AfterException(w)

\* except Exception as e: log.error(...)  around event_callback: the for loop
\* over the stream goes on.
AfterCallbackError(w) == "stream"

\* event_callback(event_type, obj) raises: the event is not broadcast.
WatchCallbackError(w) ==
    /\ wpc[w] = "callback"
    /\ Cardinality(wstream[w].dropped) < MaxCallbackFaults
    /\ wstream' = [wstream EXCEPT ![w].dropped = @ \cup {wev[w].id}]
    /\ wev' = [wev EXCEPT ![w] = NoEvent]
    /\ wpc' = [wpc EXCEPT ![w] = AfterCallbackError(w)]
    /\ UNCHANGED <<mgr, locks, queue, sess, wkey, stop_requested, widx, wdead,
                   wbefore, nextWatcher, nextEvent, whist, putFaults, bcasts,
                   obs, aux>>

\* The open stream raises (ApiException or another Exception); the except
\* clause tests _stop_requested.
WatchStreamError(w) ==
    /\ wpc[w] = "stream"
    /\ Len(delays[w]) < MaxFailures
    /\ wpc' = [wpc EXCEPT ![w] = AfterException(w)]
    /\ since' = [since EXCEPT ![w] = "error"]
    /\ UNCHANGED <<mgr, locks, queue, sess, wkey, stop_requested, wev, widx, wdead,
                   wbefore, nextWatcher, nextEvent, delays, putFaults, bcasts,
                   wstream, obs, aux>>

\* The open stream ends without raising (timeout_seconds=300 has expired):
\* the for loop ends and the while loop goes round.
WatchStreamExpire(w) ==
    /\ wpc[w] = "stream"
    /\ wpc' = [wpc EXCEPT ![w] = "loop"]
    /\ since' = [since EXCEPT ![w] = "expiry"]
    /\ UNCHANGED <<mgr, locks, queue, sess, wkey, stop_requested, wev, widx, wdead,
                   wbefore, nextWatcher, nextEvent, delays, putFaults, bcasts,
                   wstream, obs, aux>>

\* stop() has called self.watch.stop(): the open stream returns without a
\* further event when the thread resumes it, the for loop ends and the while
\* loop goes round.
WatchStreamStopped(w) ==
    /\ stop_requested[w]
    /\ WatchStreamExpire(w)

\* self._reconnect_with_backoff()
WatchBackoff(w) ==
    LET sleeps == reconnect_with_backoff(1, 32, stop_requested[w]) IN
    /\ wpc[w] = "backoff"
    /\ wpc' = [wpc EXCEPT ![w] = "loop"]
    /\ delays' = [delays EXCEPT ![w] = @ \o sleeps]
    /\ since' = [since EXCEPT ![w] =
                    IF SumSeq(sleeps) >= 1 /\ @ = "error" THEN "error_slept"
                    ELSE IF SumSeq(sleeps) >= 1 /\ @ = "expiry" THEN "expiry_slept"
                    ELSE @]
    /\ UNCHANGED <<mgr, locks, queue, sess, wkey, stop_requested, wev, widx, wdead,
                   wbefore, nextWatcher, nextEvent, putFaults, bcasts,
                   wstream, obs, aux>>

\* ------------------------------------------------------------ broadcast
\* _broadcast_event: with self._locks[watch_key]: dead_queues = []
BroadcastAcquire(w) ==
    LET k == wkey[w] IN
    /\ wpc[w] = "callback"
    /\ LockAvailable(k)
    /\ locks' = [locks EXCEPT ![k] = <<"watcher", w>>]
    /\ widx' = [widx EXCEPT ![w] = 1]
    /\ wdead' = [wdead EXCEPT ![w] = <<>>]
    /\ wbefore' = [wbefore EXCEPT ![w] = client_queues[k]]
    /\ wpc' = [wpc EXCEPT ![w] = "put"]
    /\ UNCHANGED <<mgr, queue, sess, wkey, stop_requested, wev, nextWatcher,
                   nextEvent, whist, putFaults, bcasts,
                   wstream, obs, aux>>

\* One iteration of  for queue in self._client_queues[watch_key]:
\* queue.put(event_data) returns once the queue has room; if it raises, the
\* queue is appended to dead_queues.
BroadcastPut(w, raises) ==
    LET k == wkey[w]
        s == client_queues[k][widx[w]]
    IN
    /\ wpc[w] = "put"
    /\ widx[w] <= Len(client_queues[k])
    /\ IF raises
       THEN /\ putFaults < MaxPutFaults
            /\ putFaults' = putFaults + 1
            /\ wdead' = [wdead EXCEPT ![w] = Append(@, s)]
            /\ UNCHANGED queue
       ELSE /\ ~QueueFull(queue[s])
            /\ queue' = [queue EXCEPT ![s] = QueuePut(@, wev[w])]
            /\ UNCHANGED <<wdead, putFaults>>
    /\ widx' = [widx EXCEPT ![w] = @ + 1]
    /\ UNCHANGED <<mgr, locks, sess, wpc, wkey, stop_requested, wev, wbefore,
                   nextWatcher, nextEvent, whist, bcasts,
                   wstream, obs, aux>>

\* Mutant of BroadcastFinish: a broadcast that found no queue in the list
\* tears the key's watcher down.
BroadcastFinishTeardown(w) ==
    LET k == wkey[w]
        after == RemoveDead(client_queues[k], wdead[w])
    IN
    /\ wpc[w] = "put"
    /\ widx[w] > Len(client_queues[k])
    /\ client_queues' = [client_queues EXCEPT ![k] = after]
    /\ IF Len(client_queues[k]) = 0
       THEN stop_watcher(k)
       ELSE UNCHANGED <<namespace_watchers, single_watchers, event_watchers,
                        stop_requested>>
    /\ locks' = [locks EXCEPT ![k] = FreeLock]
    /\ wpc' = [wpc EXCEPT ![w] = "stream"]
    /\ bcasts' = bcasts \cup {[id |-> wev[w].id, key |-> k, before |-> wbefore[w],
                               dead |-> wdead[w], after |-> after]}
    /\ wev' = [wev EXCEPT ![w] = NoEvent]
    /\ widx' = [widx EXCEPT ![w] = 0]
    /\ wdead' = [wdead EXCEPT ![w] = <<>>]
    /\ wbefore' = [wbefore EXCEPT ![w] = <<>>]
    /\ UNCHANGED <<queue, sess, wkey, nextWatcher, nextEvent, whist, putFaults,
                   wstream, obs, aux>>

\* Mutant of BroadcastFinish: a broadcast whose evictions empty the list
\* stops the key's watcher, as unregister_client does.
BroadcastFinishStopsOnEmpty(w) ==
    LET k == wkey[w]
        after == RemoveDead(client_queues[k], wdead[w])
    IN
    /\ wpc[w] = "put"
    /\ widx[w] > Len(client_queues[k])
    /\ client_queues' = [client_queues EXCEPT ![k] = after]
    /\ IF wdead[w] # <<>> /\ LastClientGone(after)
       THEN stop_watcher(k)
       ELSE UNCHANGED <<namespace_watchers, single_watchers, event_watchers,
                        stop_requested>>
    /\ locks' = [locks EXCEPT ![k] = FreeLock]
    /\ wpc' = [wpc EXCEPT ![w] = "stream"]
    /\ bcasts' = bcasts \cup {[id |-> wev[w].id, key |-> k, before |-> wbefore[w],
                               dead |-> wdead[w], after |-> after]}
    /\ wev' = [wev EXCEPT ![w] = NoEvent]
    /\ widx' = [widx EXCEPT ![w] = 0]
    /\ wdead' = [wdead EXCEPT ![w] = <<>>]
    /\ wbefore' = [wbefore EXCEPT ![w] = <<>>]
    /\ UNCHANGED <<queue, sess, wkey, nextWatcher, nextEvent, whist, putFaults,
                   wstream, obs, aux>>

\* for queue in dead_queues: ...remove(queue); the lock is released, the
\* callback returns to the stream's for loop and its locals are gone.
BroadcastFinish(w) ==
    LET k == wkey[w]
        after == RemoveDead(client_queues[k], wdead[w])
    IN
    /\ wpc[w] = "put"
    /\ widx[w] > Len(client_queues[k])
    /\ client_queues' = [client_queues EXCEPT ![k] = after]
    /\ locks' = [locks EXCEPT ![k] = FreeLock]
    /\ wpc' = [wpc EXCEPT ![w] = "stream"]
    /\ bcasts' = bcasts \cup {[id |-> wev[w].id, key |-> k, before |-> wbefore[w],
                               dead |-> wdead[w], after |-> after]}
    /\ wev' = [wev EXCEPT ![w] = NoEvent]
    /\ widx' = [widx EXCEPT ![w] = 0]
    /\ wdead' = [wdead EXCEPT ![w] = <<>>]
    /\ wbefore' = [wbefore EXCEPT ![w] = <<>>]
    /\ UNCHANGED <<namespace_watchers, single_watchers, event_watchers, queue, sess,
                   wkey, stop_requested, nextWatcher, nextEvent, whist, putFaults,
                   wstream, obs, aux>>

\* ---------------------------------------------------------------- system
\* The watch keys a connection may ask for: the first connection any of the
\* three endpoints, a later one the namespace endpoint or the endpoint of an
\* earlier connection (the three register functions differ in the dict and
\* the watcher class only).
Endpoints(s) ==
    IF s = 1 THEN Keys ELSE {NsKey} \cup {skey[r] : r \in {x \in Sessions : x < s}}

SessionStep(s) ==
    \/ \E k \in Endpoints(s), ok \in BOOLEAN : SessionStart(s, k, ok)
    \/ SessionResume(s)
    \/ SessionDisconnect(s)
    \/ \E ok \in BOOLEAN : SessionGet(s, ok)
    \/ SessionHeartbeat(s)
    \/ register_namespace_watch(s)
    \/ register_single_watch(s)
    \/ register_event_watch(s)
    \/ unregister_client(s)

WatcherStep(w) ==
    \/ WatchLoop(w)
    \/ WatchConnect(w)
    \/ WatchConnectError(w)
    \/ WatchEvent(w)
    \/ WatchCallbackError(w)
    \/ WatchStreamError(w)
    \/ WatchStreamExpire(w)
    \/ WatchBackoff(w)
    \/ BroadcastAcquire(w)
    \/ \E raises \in BOOLEAN : BroadcastPut(w, raises)
    \/ BroadcastFinish(w)

Next ==
    \/ \E s \in Sessions : SessionStep(s)
    \/ \E w \in Watchers : WatcherStep(w)

Spec == Init /\ [][Next]_vars

\* The relay with an upstream that neither fails nor expires: the sessions,
\* the manager and the watchers' event path.  A failing or expiring stream
\* calls nothing of the manager, it only delays the watcher's next callback.
\* The stream of a stopped watcher returns.
RelayWatcherStep(w) ==
    \/ WatchLoop(w)
    \/ WatchConnect(w)
    \/ WatchEvent(w)
    \/ WatchStreamStopped(w)
    \/ BroadcastAcquire(w)
    \/ \E raises \in BOOLEAN : BroadcastPut(w, raises)
    \/ BroadcastFinish(w)

RelayNext ==
    \/ \E s \in Sessions : SessionStep(s)
    \/ \E w \in Watchers : RelayWatcherStep(w)

RelaySpec == Init /\ [][RelayNext]_vars

\* The watcher loop against an upstream that fails and expires but yields no
\* event: the sessions attach and detach, which constructs and stops the
\* watchers.
QuietSessionStep(s) ==
    \/ \E k \in Endpoints(s), ok \in BOOLEAN : SessionStart(s, k, ok)
    \/ SessionResume(s)
    \/ SessionDisconnect(s)
    \/ SessionHeartbeat(s)
    \/ register_namespace_watch(s)
    \/ register_single_watch(s)
    \/ register_event_watch(s)
    \/ unregister_client(s)

QuietWatcherStep(w) ==
    \/ WatchLoop(w)
    \/ WatchConnect(w)
    \/ WatchConnectError(w)
    \/ WatchStreamError(w)
    \/ WatchStreamExpire(w)
    \/ WatchBackoff(w)

WatcherNext ==
    \/ \E s \in Sessions : QuietSessionStep(s)
    \/ \E w \in Watchers : QuietWatcherStep(w)

WatcherSpec == Init /\ [][WatcherNext]_vars

\* The relay with a reliable upstream and callbacks that may raise.
CallbackNext ==
    \/ RelayNext
    \/ \E w \in Watchers : WatchCallbackError(w)

CallbackSpec == Init /\ [][CallbackNext]_vars

\* The relay with two connections on two different watch keys, an upstream
\* whose open streams may raise, and no heartbeats: what happens on one key
\* while the other key's watcher, mailbox or session fails.
IsolationEndpoints(s) == IF s = 1 THEN {IsvcKey, EventsKey} ELSE {NsKey}

IsolationSessionStep(s) ==
    \/ \E k \in IsolationEndpoints(s), ok \in BOOLEAN : SessionStart(s, k, ok)
    \/ SessionResume(s)
    \/ SessionDisconnect(s)
    \/ \E ok \in BOOLEAN : SessionGet(s, ok)
    \/ register_namespace_watch(s)
    \/ register_single_watch(s)
    \/ register_event_watch(s)
    \/ unregister_client(s)

IsolationWatcherStep(w) ==
    \/ RelayWatcherStep(w)
    \/ WatchStreamError(w)
    \/ WatchBackoff(w)

IsolationNext ==
    \/ \E s \in Sessions : IsolationSessionStep(s)
    \/ \E w \in Watchers : IsolationWatcherStep(w)

IsolationSpec == Init /\ [][IsolationNext]_vars

\* The namespaces endpoint.
NamespacesNext ==
    \E env \in EnvStrings, cluster \in Clusters, ok \in BOOLEAN :
        get_namespaces(env, cluster, ok)

NamespacesSpec == Init /\ [][NamespacesNext]_vars

\* The timed loop of one generator.
HeartbeatNext ==
    \/ \E wait \in 0..(get_timeout * TicksPerUnit + MaxLag) : TimedGetEvent(wait)
    \/ \E lag \in 0..MaxLag : TimedGetEmpty(lag)
    \/ \E delay \in 0..MaxResume : TimedResume(delay)

HeartbeatSpec == Init /\ [][HeartbeatNext]_vars

\* ---------------------------------------------------- derived state
Constructed == 1..nextWatcher
\* The mailboxes in _client_queues[k].
Attached(k) == Range(client_queues[k])
\* unregister_client has returned for the session.
Detached(s) == spc[s] \in {"closed", "yield_error"}
\* Sessions that attached to k and whose unregister_client has not returned.
Pending(k) == {s \in Sessions : skey[s] = k /\ attached[s] /\ ~Detached(s)}
\* Watchers constructed for k on which stop() has not been called.
LiveWatchers(k) == {w \in Constructed : wkey[w] = k /\ ~stop_requested[w]}
\* Watchers of k whose thread has been launched and has not returned.
RunningWatchers(k) == {w \in Constructed : wkey[w] = k /\ wpc[w] # "exit"}
\* Ids of the events a session has taken or will take from its queue, in order.
Observed(s) == got[s] \o [i \in 1..Len(queue[s]) |-> queue[s][i].id]
Receivers(id) == {s \in Sessions : id \in Range(Observed(s))}
Count(q, x) == Cardinality({i \in DOMAIN q : q[i] = x})
\* The watcher's put is waiting on a full queue.
Blocked(w) ==
    /\ wpc[w] = "put"
    /\ widx[w] <= Len(client_queues[wkey[w]])
    /\ QueueFull(queue[client_queues[wkey[w]][widx[w]]])
\* The session will not call client_queue.get again.
Abandoned(s) == spc[s] \notin {"loop", "yield_event", "yield_hb"}
BroadcastStep(w) ==
    \/ BroadcastAcquire(w)
    \/ \E raises \in BOOLEAN : BroadcastPut(w, raises)
    \/ BroadcastFinish(w)
\* Everything the manager, the sessions and the watchers hold for one key.
KeyState(k) ==
    <<client_queues[k], Registry(k), locks[k],
      {<<s, spc[s], queue[s], got[s], attached[s]>> :
           s \in {x \in Sessions : spc[x] # "idle" /\ skey[x] = k}},
      {<<w, wpc[w], stop_requested[w], wev[w], widx[w], wdead[w]>> :
           w \in {x \in Constructed : wkey[x] = k}}>>
\* The key's lock is held by a broadcast of the key's own watcher.
OwnBroadcastHoldsLock(k) ==
    \E w \in Constructed : wkey[w] = k /\ wpc[w] = "put" /\ locks[k] = <<"watcher", w>>
RECURSIVE Pow2(_)
Pow2(n) == IF n = 0 THEN 1 ELSE 2 * Pow2(n - 1)
Min(a, b) == IF a <= b THEN a ELSE b

\* ---------------------------------------------------------------- claims

\* C1: however the attaches to one key interleave, one watcher is constructed
\* and launched for the key: while no unregister_client for the key has
\* returned, exactly one watcher has been constructed for it; the registered
\* watcher is the only watcher of the key that has not been stopped; it stays
\* registered while a mailbox is attached; and once every session that
\* attached has returned from unregister_client it is stopped and removed.
C1_OneWatcherPerKey ==
    \A k \in Keys :
        /\ Attached(k) # {} => Registry(k) # NoWatcher
        /\ LiveWatchers(k) = IF Registry(k) = NoWatcher THEN {} ELSE {Registry(k)}
        /\ Pending(k) = {} => Registry(k) = NoWatcher
        /\ (Pending(k) # {} /\ \A s \in Sessions : skey[s] = k => ~Detached(s))
               => Cardinality({w \in Constructed : wkey[w] = k}) = 1

\* Two sessions attached to the same key, one watcher was constructed, and
\* after both detached that watcher is stopped and removed.
C1_Witness ==
    /\ skey[1] = skey[2]
    /\ attached[1] /\ attached[2]
    /\ Detached(1) /\ Detached(2)
    /\ nextWatcher = 1
    /\ stop_requested[1]
    /\ Registry(skey[1]) = NoWatcher

\* C2: two mailboxes observe the events they both receive in the same
\* relative order.
C2_SameRelativeOrder ==
    \A s1, s2 \in Sessions :
        \A i, j \in DOMAIN Observed(s1) :
            \A p, q \in DOMAIN Observed(s2) :
                (/\ i < j
                 /\ Observed(s1)[i] = Observed(s2)[p]
                 /\ Observed(s1)[j] = Observed(s2)[q]) => p < q

\* Two sessions of one key have both received the same two events.
C2_Witness ==
    /\ skey[1] = skey[2]
    /\ {1, 2} \subseteq Range(Observed(1))
    /\ {1, 2} \subseteq Range(Observed(2))

\* C3: a broadcast enqueues its event to exactly the mailboxes that were in
\* the key's list when it took the lock and whose put did not raise, all of
\* them mailboxes of that key; while it runs only such mailboxes have the
\* event; and once every session that attached to a key has detached, every
\* watcher constructed for the key is stopped.
C3_BroadcastToAttached ==
    /\ \A r \in bcasts :
           /\ Receivers(r.id) = Range(r.before) \ Range(r.dead)
           /\ \A s \in Receivers(r.id) : skey[s] = r.key
    /\ \A w \in Watchers :
           wpc[w] = "put" => Receivers(wev[w].id) \subseteq Range(wbefore[w])
    /\ \A k \in Keys :
           Pending(k) = {} => \A w \in Constructed : wkey[w] = k => stop_requested[w]

\* The scenario: sessions 1 and 2 attach to one key, both receive event 1,
\* session 1 detaches, only session 2 receives event 2, session 2 detaches
\* and the watcher is stopped.
C3_Witness ==
    /\ skey[1] = skey[2]
    /\ Receivers(1) = {1, 2}
    /\ Receivers(2) = {2}
    /\ \E r \in bcasts : r.id = 2 /\ Range(r.before) = {2}
    /\ Detached(1) /\ Detached(2)
    /\ nextWatcher = 1 /\ stop_requested[1]

\* C4 (as claimed): a broadcast never waits on a full mailbox that nobody
\* will drain again, so it always ends and releases the lock.
C4_BroadcastNeverStuck ==
    \A w \in Watchers :
        Blocked(w) => ~Abandoned(client_queues[wkey[w]][widx[w]])

\* C5 (as claimed): a session that has observed the disconnect is never left
\* waiting for a lock whose holder cannot release it.
C5_DetachNeverStuck ==
    \A s \in Sessions :
        spc[s] \in {"detach", "detach_err"} =>
            ~\E w \in Watchers :
                /\ locks[skey[s]] = <<"watcher", w>>
                /\ Blocked(w)
                /\ Abandoned(client_queues[wkey[w]][widx[w]])

\* C6: every step of a broadcast for a key with no attached mailbox leaves the
\* mailboxes, the attached lists, the watcher dicts and the stop flags alone,
\* constructs no watcher, and its for loop runs no iteration.
C6_EmptyBroadcastNoOp ==
    [][\A w \in Watchers :
           (BroadcastStep(w) /\ client_queues[wkey[w]] = <<>>) =>
               /\ UNCHANGED <<mgr, queue, stop_requested, nextWatcher, putFaults>>
               /\ wdead'[w] = <<>>
               /\ wpc'[w] \in {"put", "stream"}]_vars

\* A broadcast is running for a key that has no attached mailbox.
C6_Witness ==
    \E w \in Watchers : wpc[w] = "put" /\ client_queues[wkey[w]] = <<>>

\* C7: in a finished broadcast, the mailboxes whose put raised are removed
\* from the key's list, every other mailbox of the list is still in it, in
\* the same order, and has received the event exactly once.
C7_FailedDeliveryIsolated ==
    \A r \in bcasts :
        /\ r.after = SelectSeq(r.before, LAMBDA s : s \notin Range(r.dead))
        /\ \A s \in Range(r.before) \ Range(r.dead) : Count(Observed(s), r.id) = 1
        /\ \A s \in Range(r.dead) : Count(Observed(s), r.id) = 0

\* A broadcast in which one put raised and another mailbox got the event.
C7_Witness ==
    \E r \in bcasts :
        /\ r.dead # <<>>
        /\ Range(r.before) \ Range(r.dead) # {}
        /\ Range(r.after) = Range(r.before) \ Range(r.dead)

\* C8 (as claimed): the i-th sleep after consecutive failures is
\* min(2^(i-1), 32): 1, 2, 4, 8, 16, 32, 32, ...
C8_ExponentialBackoff ==
    \A w \in Watchers :
        \A i \in DOMAIN delays[w] : delays[w][i] = Min(Pow2(i - 1), 32)

\* C9 (as claimed): a watcher establishes a stream only as its first one or
\* after it has slept since the previous stream ended.
C9_BackoffAfterEveryEnd ==
    [][\A w \in Watchers : WatchConnect(w) =>
                                since[w] \in {"none", "error_slept", "expiry_slept"}]_vars

\* C9 (amended): a stream that ended by raising is followed by a sleep before
\* the watcher establishes the next stream.
C9_BackoffAfterError ==
    [][\A w \in Watchers : WatchConnect(w) => since[w] # "error"]_vars

\* A watcher whose stream raised has slept and is about to open the next one.
C9_Witness ==
    \E w \in Watchers :
        wpc[w] = "connect" /\ since[w] = "error_slept" /\ delays[w] = <<1>>

\* C10 (as claimed): a watcher on which stop() has been called establishes no
\* stream.
C10_NoStreamAfterStop ==
    [][\A w \in Watchers : WatchConnect(w) => ~stop_requested[w]]_vars

\* C11: a callback that raises costs only its event.  While the stream on
\* which a callback raised is still the watcher's stream, the watcher waits
\* on it or handles one of its events (it is not in backoff or reconnecting,
\* unless it has been stopped); the dropped event reaches no mailbox; and
\* every other event the stream has yielded to a watcher that was not
\* stopped is being handled, was broadcast for the watcher's key, or had its
\* own callback raise.
C11_CallbackErrorDropsOneEvent ==
    \A w \in Watchers :
        /\ \A d \in wstream[w].dropped : Receivers(d) = {}
        /\ (wstream[w].dropped # {} /\ since[w] = "none" /\ ~stop_requested[w])
               => wpc[w] \in {"stream", "callback", "put"}
        /\ ~stop_requested[w] =>
               \A id \in wstream[w].yielded \ wstream[w].dropped :
                   \/ wev[w].id = id
                   \/ \E r \in bcasts : r.id = id /\ r.key = wkey[w]

\* The callback raised for event 1; event 2, yielded later by the same
\* stream, was broadcast and received, and the watcher waits on that stream.
C11_Witness ==
    \E w \in Watchers :
        /\ wstream[w].dropped = {1}
        /\ 2 \in wstream[w].yielded
        /\ \E r \in bcasts : r.id = 2 /\ r.key = wkey[w]
        /\ Receivers(2) # {}
        /\ wpc[w] = "stream" /\ since[w] = "none" /\ delays[w] = <<>>

\* C12: a session calls unregister_client at most once; a session that has
\* terminated (closed after a disconnect, after a failed snapshot fetch, after
\* an exception in its loop, or by a disconnect during its error event) has
\* called it exactly once; and a session that has called it is past its try.
C12_DetachExactlyOnce ==
    \A s \in Sessions :
        /\ detaches[s] <= 1
        /\ spc[s] = "closed" => detaches[s] = 1
        /\ detaches[s] = 1 => spc[s] \in {"yield_error", "closed"}

\* One session has terminated after a failed snapshot fetch, before any
\* attach, and another after a disconnect while attached; each has called
\* unregister_client once.
C12_Witness ==
    \E s1, s2 \in Sessions :
        /\ spc[s1] = "closed" /\ failed[s1] /\ ~attached[s1] /\ detaches[s1] = 1
        /\ spc[s2] = "closed" /\ ~failed[s2] /\ attached[s2] /\ detaches[s2] = 1

\* C13: a session yields an error event only after an exception inside its
\* try, at most once, and yields nothing after it; a session that has closed
\* after such an exception has yielded exactly one error event; and from the
\* error event on its mailbox is in no key's list.
C13_ErrorEventTerminal ==
    \A s \in Sessions :
        /\ sent[s].errors <= 1
        /\ sent[s].after_error = 0
        /\ sent[s].errors = 1 => failed[s]
        /\ (failed[s] /\ spc[s] \in {"yield_error", "closed"}) =>
               /\ sent[s].errors = 1
               /\ \A k \in Keys : s \notin Attached(k)

\* A session closed after an exception in its loop, having attached and
\* yielded the initial event and then one error event, while another session
\* closed after a failed snapshot fetch.
C13_Witness ==
    \E s1, s2 \in Sessions :
        /\ spc[s1] = "closed" /\ failed[s1] /\ attached[s1]
        /\ sent[s1] = [first |-> "initial", errors |-> 1, after_error |-> 0]
        /\ spc[s2] = "closed" /\ failed[s2] /\ ~attached[s2]
        /\ sent[s2] = [first |-> "error", errors |-> 1, after_error |-> 0]

\* C14 (as claimed): the first message of every session is the initial event,
\* and a session attaches only after yielding it.
C14_FirstIsInitial ==
    \A s \in Sessions :
        /\ sent[s].first \in {"none", "initial"}
        /\ attached[s] => sent[s].first = "initial"

\* C14 (amended): the first message of a session is the initial event or,
\* when the snapshot fetch raised, the error event, which is then its only
\* message and the session never attaches; a session attaches, takes an event
\* from its queue or yields an event or a heartbeat only after it has yielded
\* the initial event.
C14_InitialBeforeLive ==
    \A s \in Sessions :
        /\ sent[s].first \in {"none", "initial", "error"}
        /\ sent[s].first = "error" =>
               /\ failed[s] /\ ~attached[s] /\ got[s] = <<>>
               /\ spc[s] \in {"yield_error", "closed"}
               /\ \A k \in Keys : s \notin Attached(k)
        /\ (\/ attached[s]
            \/ \E k \in Keys : s \in Attached(k)
            \/ got[s] # <<>>
            \/ spc[s] \in {"loop", "yield_event", "yield_hb"}) =>
               sent[s].first = "initial"

\* One session has yielded the initial event, attached and yielded a live
\* event; another, whose snapshot fetch raised, has yielded the error event
\* first.
C14_Witness ==
    \E s1, s2 \in Sessions :
        /\ sent[s1].first = "initial" /\ attached[s1] /\ got[s1] # <<>>
        /\ spc[s1] = "yield_event"
        /\ sent[s2].first = "error" /\ ~attached[s2]

\* C15: the heartbeat clock is the time the generator resumed after its last
\* emission, event or heartbeat (the time the yield returned); a heartbeat is
\* emitted only when more than 30 time units have passed since then, and it
\* is emitted by the first get that times out after that mark (within one
\* timeout and its lag); once 35 time units have passed since the last event
\* emission returned and no event has been taken from the mailbox since,
\* exactly one heartbeat has been emitted in those 35 units.
C15_HeartbeatTiming ==
    LET mark == heartbeat_interval * TicksPerUnit
        poll == get_timeout * TicksPerUnit + MaxLag
        Previous(i) == IF i = 1 THEN quiet_from ELSE resumed[i - 1]
    IN
    /\ timed_pc = "get" =>
           /\ Len(resumed) = Len(beats)
           /\ last_heartbeat = IF beats = <<>> THEN quiet_from ELSE resumed[Len(beats)]
           /\ clock - last_heartbeat <= mark
    /\ timed_pc = "yield_hb" => Len(resumed) = Len(beats) - 1
    /\ \A i \in DOMAIN beats :
           /\ beats[i] - Previous(i) > mark
           /\ beats[i] - Previous(i) <= mark + poll
    /\ (timed_pc # "yield_event" /\ clock - quiet_from >= 35 * TicksPerUnit) =>
           Cardinality({i \in DOMAIN beats :
                           beats[i] - quiet_from <= 35 * TicksPerUnit}) = 1

\* An event was emitted and the generator resumed some ticks after the
\* yield; 35 time units have passed without another event, and one heartbeat
\* was emitted in them and has returned.
C15_Witness ==
    /\ timed_events > 0
    /\ quiet_from > 0
    /\ clock - quiet_from >= 35 * TicksPerUnit
    /\ Len(beats) = 1
    /\ Len(resumed) = 1
    /\ resumed[1] > beats[1]

\* C16: with A the set of the non-blank, trimmed, comma-separated entries of
\* ALLOWED_NAMESPACES and C the cluster's namespaces, a success response
\* lists exactly the entries of A that are in C when there is one, and
\* exactly C when there is none (A empty or unset, or no entry of A in C).
C16_AllowListFilter ==
    LET env == ns_response.env
        IsField(i, j) ==
            /\ i <= j
            /\ i = 1 \/ env[i - 1] = ","
            /\ j = Len(env) \/ env[j + 1] = ","
            /\ \A x \in i..j : env[x] # ","
        A == {Strip(SubSeq(env, i, j)) :
                  <<i, j>> \in {p \in (DOMAIN env) \X (DOMAIN env) : IsField(p[1], p[2])}}
             \ {<<>>}
        C == Range(ns_response.cluster)
    IN ns_response.status = "success" =>
           Range(ns_response.namespaces) = IF A \cap C # {} THEN A \cap C ELSE C

\* The allow-list "a,g" against the cluster {a, b, aa} was answered with the
\* namespace a alone.
C16_Witness ==
    /\ ns_response.status = "success"
    /\ ns_response.env = <<"a", ",", "g">>
    /\ ns_response.cluster = ClusterNames
    /\ ns_response.namespaces = << <<"a">> >>

\* C17 (as claimed): whenever no critical section of key k is running, a
\* watcher is registered for k iff a mailbox is attached to k.
C17_WatcherIffAttached ==
    \A k \in Keys :
        locks[k] = FreeLock => (Registry(k) # NoWatcher <=> Attached(k) # {})

\* C18 (as claimed): at most one watcher thread per key has been launched
\* and has not yet returned.
C18_OneLiveWatcherPerKey ==
    \A k \in Keys : Cardinality(RunningWatchers(k)) <= 1

\* C19: no step of a broadcast changes a watcher dict or a stop flag, even
\* the step that evicts the last mailbox of the key; a step that unregisters
\* or stops the watcher of a key is an unregister_client of that key that
\* leaves the key's list empty.
C19_OnlyDetachTearsDown ==
    [][/\ \A w \in Watchers :
              BroadcastStep(w) =>
                  UNCHANGED <<namespace_watchers, single_watchers, event_watchers,
                              stop_requested>>
       /\ \A k \in Keys :
              (/\ Registry(k) # NoWatcher
               /\ \/ Registry(k)' # Registry(k)
                  \/ stop_requested'[Registry(k)] # stop_requested[Registry(k)]) =>
                  \E s \in Sessions :
                      /\ unregister_client(s)
                      /\ skey[s] = k
                      /\ client_queues'[k] = <<>>]_vars

\* A broadcast has evicted the only mailbox of a key, and the key's watcher
\* is still registered, not stopped, and waiting on its stream.
C19_Witness ==
    \E r \in bcasts :
        /\ Len(r.before) = 1 /\ r.dead = r.before /\ r.after = <<>>
        /\ client_queues[r.key] = <<>>
        /\ Registry(r.key) # NoWatcher
        /\ ~stop_requested[Registry(r.key)]
        /\ wpc[Registry(r.key)] = "stream"

\* C20: a failure on one key (its watcher failing or reconnecting, a full
\* mailbox blocking its broadcast, a delivery raising, a session erroring)
\* neither changes nor delays another key.  No step changes what the
\* manager, the sessions and the watchers hold for two keys; and an attach,
\* a detach or a broadcast on a key can proceed unless a broadcast of that
\* same key holds the key's lock, a delivery unless the mailbox it puts into
\* is a full mailbox attached to that same key.
C20_NoStepTouchesTwoKeys ==
    Cardinality({k \in Keys : KeyState(k)' # KeyState(k)}) <= 1
C20_OnlyOwnKeyDelays ==
    /\ \A s \in Sessions :
          /\ (spc[s] \in {"detach", "detach_err"} /\ ~ENABLED unregister_client(s))
                 => OwnBroadcastHoldsLock(skey[s])
          /\ (/\ spc[s] = "yield_initial"
              /\ ~ENABLED (\/ register_namespace_watch(s)
                           \/ register_single_watch(s)
                           \/ register_event_watch(s)))
                 => OwnBroadcastHoldsLock(skey[s])
    /\ \A w \in Constructed :
          /\ (wpc[w] = "callback" /\ ~ENABLED BroadcastAcquire(w))
                 => OwnBroadcastHoldsLock(wkey[w])
          /\ (wpc[w] = "put" /\ ~ENABLED BroadcastStep(w))
                 => /\ Blocked(w)
                    /\ skey[client_queues[wkey[w]][widx[w]]] = wkey[w]
C20_KeysIsolated ==
    /\ [][C20_NoStepTouchesTwoKeys]_vars
    /\ []C20_OnlyOwnKeyDelays
\* A session of one key has failed and is still attached, a delivery to it
\* has raised and the broadcast still holds that key's lock; a session of
\* another key has attached, taken an event yielded after the one being
\* broadcast, and detached, which stopped and unregistered its watcher.
C20_Witness ==
    \E w \in Constructed, s1 \in Sessions, s2 \in Sessions :
        /\ skey[s1] = wkey[w] /\ skey[s2] # wkey[w]
        /\ failed[s1] /\ s1 \in Attached(wkey[w])
        /\ wpc[w] = "put" /\ s1 \in Range(wdead[w])
        /\ locks[wkey[w]] = <<"watcher", w>>
        /\ attached[s2] /\ spc[s2] = "closed" /\ detaches[s2] = 1
        /\ \E i \in DOMAIN got[s2] : got[s2][i] > wev[w].id
        /\ Registry(skey[s2]) = NoWatcher
        /\ \E w2 \in Constructed : wkey[w2] = skey[s2] /\ stop_requested[w2]

\* C21: a session receives only events whose broadcast took the key's lock
\* after the session's attach had completed: every event a session has taken
\* or has in its mailbox was broadcast for its key with the session in the
\* list, and an event broadcast for the key without the session in the list
\* (one broadcast between the session's snapshot fetch and its attach
\* included) is never delivered to it.
C21_OnlyEventsAfterAttach ==
    \A s \in Sessions :
        /\ \A id \in Range(Observed(s)) :
              \/ \E b \in bcasts :
                     b.id = id /\ b.key = skey[s] /\ s \in Range(b.before)
              \/ \E w \in Constructed :
                     /\ wpc[w] = "put" /\ wev[w].id = id
                     /\ wkey[w] = skey[s] /\ s \in Range(wbefore[w])
        /\ \A b \in bcasts :
              (spc[s] # "idle" /\ b.key = skey[s] /\ s \notin Range(b.before))
                  => b.id \notin Range(Observed(s))
\* A session is attached and has never been detached or evicted; an event
\* the upstream yielded after the session's snapshot was broadcast to the
\* mailboxes attached before it, and the session has since taken a later
\* event but not that one.
C21_Witness ==
    \E s \in Sessions, b \in bcasts :
        /\ attached[s] /\ s \in Attached(skey[s]) /\ detaches[s] = 0
        /\ b.key = skey[s] /\ b.id > snapshot_at[s]
        /\ b.before # <<>> /\ s \notin Range(b.before)
        /\ b.id \notin Range(Observed(s))
        /\ \E i \in DOMAIN got[s] : got[s][i] > b.id

\* C22: every event enqueued to a mailbox attached to a key comes from the
\* watcher registered for the key: a watcher whose broadcast has put its
\* event into a mailbox is the key's registered watcher and has not been
\* stopped (so the callback of a stopped watcher, racing stop(), reaches no
\* mailbox attached after the stop).
C22_OnlyRegisteredWatcherDelivers ==
    \A w \in Constructed :
        (/\ wpc[w] = "put"
         /\ \E i \in 1..(widx[w] - 1) :
                i <= Len(wbefore[w]) /\ wbefore[w][i] \notin Range(wdead[w]))
            => (Registry(wkey[w]) = w /\ ~stop_requested[w])

\* C23: unregister_client called for a mailbox that is not in the key's list
\* (the session's snapshot fetch failed before the attach, or a broadcast
\* evicted the mailbox) leaves every key's list unchanged and, when the
\* key's list is not empty, neither unregisters nor stops a watcher.
C23_DetachOfAbsentMailbox ==
    \A s \in Sessions :
        (detaches'[s] = detaches[s] + 1 /\ s \notin Attached(skey[s]))
            => /\ client_queues' = client_queues
               /\ Attached(skey[s]) # {}
                     => /\ Registry(skey[s])' = Registry(skey[s])
                        /\ stop_requested' = stop_requested
C23_DetachOfAbsentIsNoOp == [][C23_DetachOfAbsentMailbox]_vars
\* A session whose snapshot fetch failed has called unregister_client
\* without ever attaching, while another session is attached to the same
\* key; the key's watcher is still registered and has not been stopped.
C23_Witness ==
    \E s \in Sessions, r \in Sessions :
        /\ s # r /\ skey[s] = skey[r]
        /\ failed[s] /\ ~attached[s] /\ detaches[s] = 1
        /\ r \in Attached(skey[r])
        /\ Registry(skey[r]) # NoWatcher
        /\ ~stop_requested[Registry(skey[r])]
====
